---- MODULE Spec2Model ----
(***************************************************************************)
(* StockMaster scanner backend: the stock ledger (update_stock), the scan  *)
(* action router (process_receipt_scan / process_delivery_scan behind the  *)
(* scan_receipt / scan_delivery handlers) and the scan audit log.          *)
(*                                                                         *)
(* Quantities are Float columns in the source; the model uses integers    *)
(* (no rounding, NaN or infinity).  The pass-through request fields        *)
(* scanned_by / scanner_id / reason are not modelled: no branch reads      *)
(* them.  Row ids (uuid4) are the row's position in its table.             *)
(*                                                                         *)
(* Each caller (Procs) runs one scan call at a time.  Callers are request  *)
(* workers that share the database: every database session is its own      *)
(* transaction, so the steps of two callers interleave between a session's *)
(* query and its commit (read committed, no row lock is taken).            *)
(***************************************************************************)
EXTENDS Integers, Sequences, FiniteSets, TLC

\* ------------------------------------------------------------------ bounds
MaxCalls == 3
MaxQty == 2

Procs == {1, 2}
Sockets == {1, 2}
Cameras == {0}
Quantities == (0 - 1) .. MaxQty
\* BarcodeScanner objects constructed in one run
MaxScanners == 2
\* barcodes one pyzbar.decode pass finds in a frame
MaxDetections == 2

\* ----------------------------------------------------------------- catalog
NULL == "None"

Products == { [id |-> "p1", barcode |-> "PB1"] }
Warehouses == { [id |-> "w1", barcode |-> "WB1"], [id |-> "w2", barcode |-> "WB2"],
                [id |-> "w3", barcode |-> "PB1"] }

NoRow == [id |-> NULL, barcode |-> NULL]

ProductBarcodes == {"PB1", "XX"}
WarehouseBarcodes == {"WB1", "WB2", "XX"}

ProductIds == { pr.id : pr \in Products }
WarehouseIds == { w.id : w \in Warehouses }
Keys == ProductIds \X WarehouseIds

SCAN_RECEIPT == "scan_receipt"
SCAN_DELIVERY == "scan_delivery"

VARIABLES
    stock_levels,     \* table stock_levels: sequence of rows
    stock_movements,  \* table stock_movements: sequence of rows
    scan_logs,        \* table scan_logs: sequence of rows
    pc,               \* per caller: where its scan call stands
    request,          \* per caller: the ReceiptRequest / DeliveryRequest
    session,          \* per caller: what update_stock's session holds
    result,           \* per caller: the dict process_*_scan returned
    ncalls,           \* number of scan calls started so far
    active_connections, \* api.active_connections: list of websockets
    ws_pc,            \* per websocket: where its websocket_scanner handler stands
    ws_scanner,       \* per websocket: the handler's local 'scanner' (an object id, 0: none)
    received,         \* per websocket: the scan_result messages sent to it
    joined,           \* per websocket: the events whose broadcast had ended when it was accepted
    bidx,             \* per caller: position of broadcast_scan_result's list iterator
    message,          \* per caller: the message broadcast_scan_result built
    clock,            \* datetime.now() of the last message, as a logical clock
    scanners,         \* the BarcodeScanner objects made so far
    active_scanners,  \* api.active_scanners: camera_id -> object id (0: no entry)
    reply,            \* the response of the last read-only request
    detections,       \* what pyzbar.decode returned for the frame and for its thresholded copy
    scan_results      \* what scan_frame returned

ledger_vars == <<stock_levels, stock_movements, scan_logs, pc, request, session, result, ncalls>>
obs_vars == <<active_connections, ws_pc, ws_scanner, received, joined>>
bcast_vars == <<bidx, message, clock>>
scanner_vars == <<scanners, active_scanners>>
merge_vars == <<detections, scan_results>>
\* everything the ledger and the router's database steps leave alone
outside_ledger == <<obs_vars, bcast_vars, scanner_vars, reply, merge_vars>>

vars == <<ledger_vars, obs_vars, bcast_vars, scanner_vars, reply, merge_vars>>

\* ------------------------------------------------------------ pure helpers
\* mutant: an unknown product barcode falls back to some product
find_product_by_barcode_default(barcode) ==
    IF \E pr \in Products : pr.barcode = barcode
    THEN CHOOSE pr \in Products : pr.barcode = barcode
    ELSE CHOOSE pr \in Products : TRUE

find_product_by_barcode(barcode) ==
    IF \E pr \in Products : pr.barcode = barcode
    THEN CHOOSE pr \in Products : pr.barcode = barcode
    ELSE NoRow

\* mutant: an unknown warehouse barcode falls back to some warehouse
find_warehouse_by_barcode_default(barcode) ==
    IF \E w \in Warehouses : w.barcode = barcode
    THEN CHOOSE w \in Warehouses : w.barcode = barcode
    ELSE CHOOSE w \in Warehouses : TRUE

find_warehouse_by_barcode(barcode) ==
    IF \E w \in Warehouses : w.barcode = barcode
    THEN CHOOSE w \in Warehouses : w.barcode = barcode
    ELSE NoRow

\* mutant: the signed change is stored as the quantity
Abs_signed(x) == x

Abs(x) == IF x < 0 THEN 0 - x ELSE x

\* error values: str(e) of the ValueError raised
NoError == [msg |-> NULL, barcode |-> NULL, available |-> 0]
ProductNotFound(barcode) == [msg |-> "Product not found", barcode |-> barcode, available |-> 0]
WarehouseNotFound(barcode) == [msg |-> "Warehouse not found", barcode |-> barcode, available |-> 0]
InsufficientStock(available) == [msg |-> "Insufficient stock. Available", barcode |-> NULL, available |-> available]

\* str(e) of the exception a session raises when the database cannot be reached
StorageUnavailable(op) == [msg |-> "Storage unavailable", barcode |-> op, available |-> 0]

\* the dict of the except branch: only 'success' and 'error'
FailureResult(e) ==
    [success |-> FALSE, error |-> e, action |-> NULL, product |-> NULL, warehouse |-> NULL,
     old_quantity |-> 0, new_quantity |-> 0, quantity_change |-> 0, movement_id |-> 0]

NoResult == FailureResult(NoError)
NoRequest == [action |-> NULL, product_barcode |-> NULL, warehouse_barcode |-> NULL, quantity |-> 0]
NoSession == [product_id |-> NULL, warehouse_id |-> NULL, quantity_change |-> 0,
              movement_type |-> NULL, stock |-> 0, old_qty |-> 0, new_qty |-> 0]
NoMessage == [type |-> NULL, data |-> NoResult, timestamp |-> 0]
NoReply == [op |-> NULL, status |-> 0, value |-> <<>>]

InitService ==
    /\ stock_levels = <<>>
    /\ stock_movements = <<>>
    /\ scan_logs = <<>>
    /\ pc = [p \in Procs |-> "idle"]
    /\ request = [p \in Procs |-> NoRequest]
    /\ session = [p \in Procs |-> NoSession]
    /\ result = [p \in Procs |-> NoResult]
    /\ ncalls = 0
    /\ active_connections = <<>>
    /\ ws_pc = [w \in Sockets |-> "new"]
    /\ ws_scanner = [w \in Sockets |-> 0]
    /\ received = [w \in Sockets |-> <<>>]
    /\ joined = [w \in Sockets |-> {}]
    /\ bidx = [p \in Procs |-> 0]
    /\ message = [p \in Procs |-> NoMessage]
    /\ clock = 0
    /\ scanners = <<>>
    /\ active_scanners = [c \in Cameras |-> 0]
    /\ reply = NoReply

Init ==
    /\ InitService
    /\ detections = << <<>>, <<>> >>
    /\ scan_results = <<>>

\* ---------------------------------------------------------------- the ledger
\* rows of stock_levels that session.query(StockLevel).filter(...) matches
matching_rows(product_id, warehouse_id) ==
    { i \in DOMAIN stock_levels :
        /\ stock_levels[i].product_id = product_id
        /\ stock_levels[i].warehouse_id = warehouse_id }

\* mutant: the change is subtracted
new_quantity_subtracts(quantity, quantity_change) == quantity - quantity_change

\* new_qty = stock.quantity + quantity_change
new_quantity(quantity, quantity_change) == quantity + quantity_change

\* mutant: no check of the new quantity
insufficient_never(new_qty) == FALSE

\* if new_qty < 0: raise ValueError("Insufficient stock...")
insufficient(new_qty) == new_qty < 0

\* get_stock_level: .first() of the matching rows, 0.0 when there is none.
\* The query has no ORDER BY: with several matching rows any may come first.
get_stock_level(product_id, warehouse_id) ==
    IF matching_rows(product_id, warehouse_id) = {}
    THEN {0}
    ELSE { stock_levels[i].quantity : i \in matching_rows(product_id, warehouse_id) }

\* mutant: a delivery adds the quantity
delivery_change_unsigned(quantity) == quantity

\* receipt: quantity_change = quantity; delivery: quantity_change = -quantity
receipt_change(quantity) == quantity
delivery_change(quantity) == 0 - quantity

\* process_*_scan up to the update_stock call: resolve both barcodes; a
\* ValueError lands in the except branch, which returns the failure dict.
resolve_and_call(p, action, product_barcode, warehouse_barcode, quantity, change, mtype) ==
    LET product == find_product_by_barcode(product_barcode)
        warehouse == find_warehouse_by_barcode(warehouse_barcode)
    IN  /\ request' = [request EXCEPT ![p] =
                [action |-> action, product_barcode |-> product_barcode,
                 warehouse_barcode |-> warehouse_barcode, quantity |-> quantity]]
        /\ ncalls' = ncalls + 1
        /\ IF product = NoRow
           THEN /\ result' = [result EXCEPT ![p] = FailureResult(ProductNotFound(product_barcode))]
                /\ pc' = [pc EXCEPT ![p] = "log_scan"]
                /\ UNCHANGED session
           ELSE IF warehouse = NoRow
           THEN /\ result' = [result EXCEPT ![p] = FailureResult(WarehouseNotFound(warehouse_barcode))]
                /\ pc' = [pc EXCEPT ![p] = "log_scan"]
                /\ UNCHANGED session
           ELSE /\ session' = [session EXCEPT ![p] =
                        [product_id |-> product.id, warehouse_id |-> warehouse.id,
                         quantity_change |-> change, movement_type |-> mtype,
                         stock |-> 0, old_qty |-> 0, new_qty |-> 0]]
                /\ pc' = [pc EXCEPT ![p] = "update_stock"]
                /\ UNCHANGED result
        /\ UNCHANGED <<stock_levels, stock_movements, scan_logs>>
        /\ UNCHANGED outside_ledger

\* POST /scan/receipt: the handler calls process_receipt_scan
scan_receipt(p) ==
    /\ pc[p] = "idle"
    /\ ncalls < MaxCalls
    /\ \E pb \in ProductBarcodes, wb \in WarehouseBarcodes, q \in Quantities :
         resolve_and_call(p, "receipt", pb, wb, q, receipt_change(q), SCAN_RECEIPT)

\* POST /scan/delivery: the handler calls process_delivery_scan
scan_delivery(p) ==
    /\ pc[p] = "idle"
    /\ ncalls < MaxCalls
    /\ \E pb \in ProductBarcodes, wb \in WarehouseBarcodes, q \in Quantities :
         resolve_and_call(p, "delivery", pb, wb, q, delivery_change(q), SCAN_DELIVERY)

\* mutant: get-or-create commits the new row before the quantity is checked
update_stock_query_eager_create(p) ==
    /\ pc[p] = "update_stock"
    /\ LET s == session[p]
           rows == matching_rows(s.product_id, s.warehouse_id)
           created == Append(stock_levels, [product_id |-> s.product_id,
                                            warehouse_id |-> s.warehouse_id,
                                            quantity |-> 0])
       IN \E i \in (IF rows = {} THEN {Len(created)} ELSE rows) :
            LET quantity == IF rows = {} THEN 0 ELSE stock_levels[i].quantity
                new_qty == new_quantity(quantity, s.quantity_change)
            IN /\ stock_levels' = IF rows = {} THEN created ELSE stock_levels
               /\ IF insufficient(new_qty)
                  THEN /\ result' = [result EXCEPT ![p] = FailureResult(InsufficientStock(quantity))]
                       /\ session' = [session EXCEPT ![p] = NoSession]
                       /\ pc' = [pc EXCEPT ![p] = "log_scan"]
                  ELSE /\ session' = [session EXCEPT ![p] =
                               [s EXCEPT !.stock = i, !.old_qty = quantity, !.new_qty = new_qty]]
                       /\ pc' = [pc EXCEPT ![p] = "commit"]
                       /\ UNCHANGED result
    /\ UNCHANGED <<stock_movements, scan_logs, request, ncalls>>
    /\ UNCHANGED outside_ledger

\* mutant: a delivery of more than is available delivers what is available
update_stock_query_clamped(p) ==
    /\ pc[p] = "update_stock"
    /\ LET s == session[p]
           rows == matching_rows(s.product_id, s.warehouse_id)
       IN \E i \in (IF rows = {} THEN {0} ELSE rows) :
            LET quantity == IF i = 0 THEN 0 ELSE stock_levels[i].quantity
                new_qty == new_quantity(quantity, s.quantity_change)
            IN /\ session' = [session EXCEPT ![p] =
                      [s EXCEPT !.stock = i, !.old_qty = quantity,
                                !.new_qty = IF insufficient(new_qty) THEN 0 ELSE new_qty,
                                !.quantity_change = IF insufficient(new_qty)
                                                    THEN 0 - quantity ELSE s.quantity_change]]
               /\ pc' = [pc EXCEPT ![p] = "commit"]
               /\ UNCHANGED result
    /\ UNCHANGED <<stock_levels, stock_movements, scan_logs, request, ncalls>>
    /\ UNCHANGED outside_ledger

\* mutant: the query waits while any other update_stock holds an uncommitted write
update_stock_query_table_lock(p) ==
    /\ pc[p] = "update_stock"
    /\ \A q \in Procs : pc[q] # "commit"
    /\ LET s == session[p]
           rows == matching_rows(s.product_id, s.warehouse_id)
       IN \E i \in (IF rows = {} THEN {0} ELSE rows) :
            LET quantity == IF i = 0 THEN 0 ELSE stock_levels[i].quantity
                new_qty == new_quantity(quantity, s.quantity_change)
            IN IF insufficient(new_qty)
               THEN /\ result' = [result EXCEPT ![p] = FailureResult(InsufficientStock(quantity))]
                    /\ session' = [session EXCEPT ![p] = NoSession]
                    /\ pc' = [pc EXCEPT ![p] = "log_scan"]
               ELSE /\ session' = [session EXCEPT ![p] =
                            [s EXCEPT !.stock = i, !.old_qty = quantity, !.new_qty = new_qty]]
                    /\ pc' = [pc EXCEPT ![p] = "commit"]
                    /\ UNCHANGED result
    /\ UNCHANGED <<stock_levels, stock_movements, scan_logs, request, ncalls>>
    /\ UNCHANGED outside_ledger

\* update_stock, first half: open the session, query the StockLevel row (or
\* make a pending new one with quantity 0), compute new_qty, raise when it is
\* negative.  The raise leaves the with-block: the session closes with nothing
\* flushed, and process_*_scan's except branch returns the failure dict.
update_stock_query(p) ==
    /\ pc[p] = "update_stock"
    /\ LET s == session[p]
           rows == matching_rows(s.product_id, s.warehouse_id)
       IN \E i \in (IF rows = {} THEN {0} ELSE rows) :
            LET quantity == IF i = 0 THEN 0 ELSE stock_levels[i].quantity
                new_qty == new_quantity(quantity, s.quantity_change)
            IN IF insufficient(new_qty)
               THEN /\ result' = [result EXCEPT ![p] = FailureResult(InsufficientStock(quantity))]
                    /\ session' = [session EXCEPT ![p] = NoSession]
                    /\ pc' = [pc EXCEPT ![p] = "log_scan"]
               ELSE /\ session' = [session EXCEPT ![p] =
                            [s EXCEPT !.stock = i, !.old_qty = quantity, !.new_qty = new_qty]]
                    /\ pc' = [pc EXCEPT ![p] = "commit"]
                    /\ UNCHANGED result
    /\ UNCHANGED <<stock_levels, stock_movements, scan_logs, request, ncalls>>
    /\ UNCHANGED outside_ledger

\* mutant: a change of zero is committed without a movement row
update_stock_commit_skips_zero_movement(p) ==
    /\ pc[p] = "commit"
    /\ LET s == session[p]
           movement == [product_id |-> s.product_id, warehouse_id |-> s.warehouse_id,
                        movement_type |-> s.movement_type,
                        quantity |-> Abs(s.quantity_change),
                        quantity_change |-> s.quantity_change]
       IN /\ stock_levels' =
                IF s.stock = 0
                THEN Append(stock_levels, [product_id |-> s.product_id,
                                           warehouse_id |-> s.warehouse_id,
                                           quantity |-> s.new_qty])
                ELSE IF s.new_qty = s.old_qty
                THEN stock_levels
                ELSE [stock_levels EXCEPT ![s.stock].quantity = s.new_qty]
          /\ stock_movements' = IF s.quantity_change = 0 THEN stock_movements
                                ELSE Append(stock_movements, movement)
          /\ result' = [result EXCEPT ![p] =
                [success |-> TRUE, error |-> NoError, action |-> request[p].action,
                 product |-> s.product_id, warehouse |-> s.warehouse_id,
                 old_quantity |-> s.old_qty, new_quantity |-> s.new_qty,
                 quantity_change |-> s.quantity_change,
                 movement_id |-> Len(stock_movements) + 1]]
    /\ session' = [session EXCEPT ![p] = NoSession]
    /\ pc' = [pc EXCEPT ![p] = "log_scan"]
    /\ UNCHANGED <<scan_logs, request, ncalls>>
    /\ UNCHANGED outside_ledger

\* update_stock, second half: session.commit() flushes the StockLevel insert
\* or update and the StockMovement insert in one transaction; the result dict
\* goes back through process_*_scan, which adds product and warehouse.  The
\* flush writes the columns whose value differs from the loaded one: a
\* quantity set to the value that was read is not part of the UPDATE, so the
\* stored quantity of an existing row stays as it is.
update_stock_commit(p) ==
    /\ pc[p] = "commit"
    /\ LET s == session[p]
           movement == [product_id |-> s.product_id, warehouse_id |-> s.warehouse_id,
                        movement_type |-> s.movement_type,
                        quantity |-> Abs(s.quantity_change),
                        quantity_change |-> s.quantity_change]
       IN /\ stock_levels' =
                IF s.stock = 0
                THEN Append(stock_levels, [product_id |-> s.product_id,
                                           warehouse_id |-> s.warehouse_id,
                                           quantity |-> s.new_qty])
                ELSE IF s.new_qty = s.old_qty
                THEN stock_levels
                ELSE [stock_levels EXCEPT ![s.stock].quantity = s.new_qty]
          /\ stock_movements' = Append(stock_movements, movement)
          /\ result' = [result EXCEPT ![p] =
                [success |-> TRUE, error |-> NoError, action |-> request[p].action,
                 product |-> s.product_id, warehouse |-> s.warehouse_id,
                 old_quantity |-> s.old_qty, new_quantity |-> s.new_qty,
                 quantity_change |-> s.quantity_change,
                 movement_id |-> Len(stock_movements) + 1]]
    /\ session' = [session EXCEPT ![p] = NoSession]
    /\ pc' = [pc EXCEPT ![p] = "log_scan"]
    /\ UNCHANGED <<scan_logs, request, ncalls>>
    /\ UNCHANGED outside_ledger

\* ---------------------------------------------------------------- audit log
\* the ScanLog row log_scan builds; error_message defaults to None
scan_log_row(barcode_data, action_taken, product_id, warehouse_id, quantity, success, error_message) ==
    [barcode_data |-> barcode_data, barcode_type |-> "QR_CODE", camera_id |-> 0,
     action_taken |-> action_taken, product_id |-> product_id,
     warehouse_id |-> warehouse_id, quantity |-> quantity,
     success |-> IF success THEN 1 ELSE 0, error_message |-> error_message]

\* mutant: only successful scans are logged
log_scan_success_only(p) ==
    /\ pc[p] = "log_scan"
    /\ scan_logs' = IF result[p].success
                    THEN Append(scan_logs,
                            scan_log_row(request[p].product_barcode, request[p].action,
                                         result[p].product, result[p].warehouse,
                                         request[p].quantity, result[p].success, NoError))
                    ELSE scan_logs
    /\ pc' = [pc EXCEPT ![p] = "broadcast"]
    /\ UNCHANGED <<stock_levels, stock_movements, request, session, result, ncalls>>
    /\ UNCHANGED outside_ledger

\* mutant: the audit log keeps the latest scan only
log_scan_keeps_latest(p) ==
    /\ pc[p] = "log_scan"
    /\ scan_logs' = <<scan_log_row(request[p].product_barcode, request[p].action,
                                   result[p].product, result[p].warehouse,
                                   request[p].quantity, result[p].success, NoError)>>
    /\ pc' = [pc EXCEPT ![p] = "broadcast"]
    /\ UNCHANGED <<stock_levels, stock_movements, request, session, result, ncalls>>
    /\ UNCHANGED outside_ledger

\* mutant: the handler goes on to the broadcast before the ScanLog row is written
log_scan_after_broadcast(p) ==
    /\ pc[p] = "log_scan"
    /\ pc' = [pc EXCEPT ![p] = "broadcast"]
    /\ UNCHANGED <<stock_levels, stock_movements, scan_logs, request, session, result, ncalls>>
    /\ UNCHANGED outside_ledger

\* the handler's log_scan call: product_id and warehouse_id come from
\* result.get('product', {}).get('id'), no error_message is passed
log_scan(p) ==
    /\ pc[p] = "log_scan"
    /\ scan_logs' = Append(scan_logs,
            scan_log_row(request[p].product_barcode, request[p].action,
                         result[p].product, result[p].warehouse,
                         request[p].quantity, result[p].success, NoError))
    /\ pc' = [pc EXCEPT ![p] = "broadcast"]
    /\ UNCHANGED <<stock_levels, stock_movements, request, session, result, ncalls>>
    /\ UNCHANGED outside_ledger

\* ---------------------------------------------------------------- broadcast
\* mutant: a failed scan ends the worker
return_result_fatal(p) ==
    /\ pc' = [pc EXCEPT ![p] = IF result[p].success THEN "idle" ELSE "crashed"]
    /\ request' = [request EXCEPT ![p] = NoRequest]
    /\ result' = [result EXCEPT ![p] = NoResult]

\* 'return result': the handler ends and the outcome goes to the client
return_result(p) ==
    /\ pc' = [pc EXCEPT ![p] = "idle"]
    /\ request' = [request EXCEPT ![p] = NoRequest]
    /\ result' = [result EXCEPT ![p] = NoResult]

\* await broadcast_scan_result(result): with no connection it returns at once
\* and the handler returns the result; otherwise it builds the message and
\* starts iterating over active_connections.
broadcast_scan_result(p) ==
    /\ pc[p] = "broadcast"
    /\ IF active_connections = <<>>
       THEN /\ return_result(p)
            /\ UNCHANGED bcast_vars
       ELSE /\ message' = [message EXCEPT ![p] =
                    [type |-> "scan_result", data |-> result[p], timestamp |-> clock + 1]]
            /\ clock' = clock + 1
            /\ bidx' = [bidx EXCEPT ![p] = 0]
            /\ pc' = [pc EXCEPT ![p] = "sending"]
            /\ UNCHANGED <<request, result>>
    /\ UNCHANGED <<stock_levels, stock_movements, scan_logs, session, ncalls>>
    /\ UNCHANGED <<obs_vars, scanner_vars, reply, merge_vars>>

Next ==
    \E p \in Procs :
        \/ scan_receipt(p)
        \/ scan_delivery(p)
        \/ update_stock_query(p)
        \/ update_stock_commit(p)
        \/ log_scan(p)
        \/ broadcast_scan_result(p)

Spec == Init /\ [][Next]_vars

\* ------------------------------------------------------- broadcast loop
\* mutant: a connection is sent the message twice
broadcast_send_twice(p) ==
    /\ pc[p] = "sending"
    /\ bidx[p] < Len(active_connections)
    /\ LET connection == active_connections[bidx[p] + 1]
       IN /\ ws_pc[connection] \in {"connected", "streaming"}
          /\ received' = [received EXCEPT ![connection] = Append(Append(@, message[p]), message[p])]
    /\ bidx' = [bidx EXCEPT ![p] = @ + 1]
    /\ UNCHANGED <<ledger_vars, active_connections, ws_pc, ws_scanner, joined>>
    /\ UNCHANGED <<message, clock, scanner_vars, reply, merge_vars>>

\* for connection in active_connections: the list iterator holds an index into
\* the live list, which websocket handlers append to and remove from while a
\* send is awaited.  connection.send_text(message) delivers.
broadcast_send(p) ==
    /\ pc[p] = "sending"
    /\ bidx[p] < Len(active_connections)
    /\ LET connection == active_connections[bidx[p] + 1]
       IN /\ ws_pc[connection] \in {"connected", "streaming"}
          /\ received' = [received EXCEPT ![connection] = Append(@, message[p])]
    /\ bidx' = [bidx EXCEPT ![p] = @ + 1]
    /\ UNCHANGED <<ledger_vars, active_connections, ws_pc, ws_scanner, joined>>
    /\ UNCHANGED <<message, clock, scanner_vars, reply, merge_vars>>

\* mutant: the first failing send ends the loop
broadcast_send_raises_aborts(p) ==
    /\ pc[p] = "sending"
    /\ bidx[p] < Len(active_connections)
    /\ bidx' = [bidx EXCEPT ![p] = Len(active_connections)]
    /\ UNCHANGED <<ledger_vars, obs_vars, message, clock, scanner_vars, reply, merge_vars>>

\* connection.send_text(message) raises (peer gone, socket closed, network
\* error): the except branch logs and the loop goes on
broadcast_send_raises(p) ==
    /\ pc[p] = "sending"
    /\ bidx[p] < Len(active_connections)
    /\ bidx' = [bidx EXCEPT ![p] = @ + 1]
    /\ UNCHANGED <<ledger_vars, obs_vars, message, clock, scanner_vars, reply, merge_vars>>

\* the iterator is exhausted: broadcast_scan_result returns, the handler
\* returns result
broadcast_return(p) ==
    /\ pc[p] = "sending"
    /\ bidx[p] >= Len(active_connections)
    /\ return_result(p)
    /\ message' = [message EXCEPT ![p] = NoMessage]
    /\ bidx' = [bidx EXCEPT ![p] = 0]
    /\ UNCHANGED <<stock_levels, stock_movements, scan_logs, session, ncalls>>
    /\ UNCHANGED <<obs_vars, clock, scanner_vars, reply, merge_vars>>

\* ------------------------------------------------------- websocket handler
\* timestamps of the events whose broadcast is over
past_events == { t \in 1 .. clock : \A p \in Procs : message[p].timestamp # t }

\* list.remove(x): drops the first occurrence
RECURSIVE remove(_, _)
remove(list, x) ==
    IF list = <<>> THEN <<>>
    ELSE IF Head(list) = x THEN Tail(list)
    ELSE <<Head(list)>> \o remove(Tail(list), x)

\* await websocket.accept(); active_connections.append(websocket)
ws_accept(w) ==
    /\ ws_pc[w] = "new"
    /\ active_connections' = Append(active_connections, w)
    /\ joined' = [joined EXCEPT ![w] = past_events]
    /\ ws_pc' = [ws_pc EXCEPT ![w] = "connected"]
    /\ UNCHANGED <<ledger_vars, ws_scanner, received, bcast_vars, scanner_vars, reply, merge_vars>>

\* "Ensure scanner is running": an unregistered camera gets a new
\* BarcodeScanner, registered when start_camera() succeeds; when it fails the
\* socket is sent an error, closed, and the handler returns through finally
\* (received keeps the broadcast messages only, not the handler's own notices)
ws_ensure_scanner(w, camera_id) ==
    /\ ws_pc[w] = "connected"
    /\ IF active_scanners[camera_id] = 0
       THEN \/ /\ Len(scanners) < MaxScanners
               /\ scanners' = Append(scanners, [camera_id |-> camera_id, is_running |-> TRUE])
               /\ active_scanners' = [active_scanners EXCEPT ![camera_id] = Len(scanners) + 1]
               /\ ws_scanner' = [ws_scanner EXCEPT ![w] = Len(scanners) + 1]
               /\ ws_pc' = [ws_pc EXCEPT ![w] = "streaming"]
               /\ UNCHANGED received
            \/ /\ ws_pc' = [ws_pc EXCEPT ![w] = "closing"]
               /\ UNCHANGED <<scanners, active_scanners, ws_scanner, received>>
       ELSE /\ ws_scanner' = [ws_scanner EXCEPT ![w] = active_scanners[camera_id]]
            /\ ws_pc' = [ws_pc EXCEPT ![w] = "streaming"]
            /\ UNCHANGED <<scanners, active_scanners, received>>
    /\ UNCHANGED <<ledger_vars, active_connections, joined, bcast_vars, reply, merge_vars>>

\* the streaming loop gets no frame (the scanner was stopped, or cap.read()
\* failed): the socket is sent an error and the loop breaks
ws_capture_fails(w) ==
    /\ ws_pc[w] = "streaming"
    /\ ws_pc' = [ws_pc EXCEPT ![w] = "closing"]
    /\ UNCHANGED <<ledger_vars, active_connections, ws_scanner, received, joined, bcast_vars, scanner_vars, reply, merge_vars>>

\* the peer goes away: send_json raises WebSocketDisconnect in the loop
\* (frames that are delivered leave the model's state as it is)
ws_disconnect(w) ==
    /\ ws_pc[w] = "streaming"
    /\ ws_pc' = [ws_pc EXCEPT ![w] = "closing"]
    /\ UNCHANGED <<ledger_vars, active_connections, ws_scanner, received, joined, bcast_vars, scanner_vars, reply, merge_vars>>

\* mutant: a handler that returns before streaming skips the cleanup
ws_finally_after_streaming(w) ==
    /\ ws_pc[w] = "closing"
    /\ active_connections' = IF ws_scanner[w] = 0 THEN active_connections
                              ELSE remove(active_connections, w)
    /\ ws_pc' = [ws_pc EXCEPT ![w] = "closed"]
    /\ UNCHANGED <<ledger_vars, ws_scanner, received, joined, bcast_vars, scanner_vars, reply, merge_vars>>

\* finally: if websocket in active_connections: active_connections.remove(websocket)
ws_finally(w) ==
    /\ ws_pc[w] = "closing"
    /\ active_connections' = remove(active_connections, w)
    /\ ws_pc' = [ws_pc EXCEPT ![w] = "closed"]
    /\ UNCHANGED <<ledger_vars, ws_scanner, received, joined, bcast_vars, scanner_vars, reply, merge_vars>>

websocket_scanner(w) ==
    \/ ws_accept(w)
    \/ \E camera_id \in Cameras : ws_ensure_scanner(w, camera_id)
    \/ ws_capture_fails(w)
    \/ ws_disconnect(w)
    \/ ws_finally(w)

\* the request handlers that run next to the websocket handlers
Callers == {1}

\* requests made next to the observers
MaxObserved == 2

\* the requests they carry: one unit to or from warehouse WB1, of a known or an
\* unknown product
ObservedRequest(p) ==
    /\ request'[p].warehouse_barcode = "WB1"
    /\ request'[p].quantity = MaxQty - 1
    /\ ncalls' <= MaxObserved

NextWS ==
    \/ \E p \in Callers :
        \/ scan_receipt(p) /\ ObservedRequest(p)
        \/ scan_delivery(p) /\ ObservedRequest(p)
        \/ update_stock_query(p)
        \/ update_stock_commit(p)
        \/ log_scan(p)
        \/ broadcast_scan_result(p)
        \/ broadcast_send(p)
        \/ broadcast_send_raises(p)
        \/ broadcast_return(p)
    \/ \E w \in Sockets : websocket_scanner(w)

SpecWS == Init /\ [][NextWS]_vars

\* ------------------------------------------------------- storage failures
\* update_stock's query raises (the database cannot be reached): the
\* with-block is left, process_*_scan's except branch returns the failure dict
update_stock_query_fails(p) ==
    /\ pc[p] = "update_stock"
    /\ result' = [result EXCEPT ![p] = FailureResult(StorageUnavailable("query"))]
    /\ session' = [session EXCEPT ![p] = NoSession]
    /\ pc' = [pc EXCEPT ![p] = "log_scan"]
    /\ UNCHANGED <<stock_levels, stock_movements, scan_logs, request, ncalls>>
    /\ UNCHANGED outside_ledger

\* mutant: the movement insert is committed on its own before the balance update fails
update_stock_commit_fails_partial(p) ==
    /\ pc[p] = "commit"
    /\ stock_movements' = Append(stock_movements,
            [product_id |-> session[p].product_id, warehouse_id |-> session[p].warehouse_id,
             movement_type |-> session[p].movement_type,
             quantity |-> Abs(session[p].quantity_change),
             quantity_change |-> session[p].quantity_change])
    /\ result' = [result EXCEPT ![p] = FailureResult(StorageUnavailable("commit"))]
    /\ session' = [session EXCEPT ![p] = NoSession]
    /\ pc' = [pc EXCEPT ![p] = "log_scan"]
    /\ UNCHANGED <<stock_levels, scan_logs, request, ncalls>>
    /\ UNCHANGED outside_ledger

\* update_stock's session.commit() raises: the one transaction holding the
\* StockLevel write and the StockMovement insert is rolled back when the
\* with-block closes the session; process_*_scan's except branch returns the
\* failure dict
update_stock_commit_fails(p) ==
    /\ pc[p] = "commit"
    /\ result' = [result EXCEPT ![p] = FailureResult(StorageUnavailable("commit"))]
    /\ session' = [session EXCEPT ![p] = NoSession]
    /\ pc' = [pc EXCEPT ![p] = "log_scan"]
    /\ UNCHANGED <<stock_levels, stock_movements, scan_logs, request, ncalls>>
    /\ UNCHANGED outside_ledger

\* log_scan's session.commit() raises: the handler's except branch turns it
\* into HTTPException(400); no ScanLog row, no broadcast, no result returned
log_scan_fails(p) ==
    /\ pc[p] = "log_scan"
    /\ pc' = [pc EXCEPT ![p] = "http_400"]
    /\ UNCHANGED <<stock_levels, stock_movements, scan_logs, request, session, result, ncalls>>
    /\ UNCHANGED outside_ledger

\* the HTTP 400 response goes to the client and the handler ends
http_exception(p) ==
    /\ pc[p] = "http_400"
    /\ return_result(p)
    /\ UNCHANGED <<stock_levels, stock_movements, scan_logs, session, ncalls>>
    /\ UNCHANGED outside_ledger

NextFault ==
    \/ \E p \in Procs :
        \/ scan_receipt(p) /\ ObservedRequest(p)
        \/ scan_delivery(p) /\ ObservedRequest(p)
        \/ update_stock_query(p)
        \/ update_stock_commit(p)
        \/ log_scan(p)
        \/ broadcast_scan_result(p)
        \/ update_stock_query_fails(p)
        \/ update_stock_commit_fails(p)
        \/ log_scan_fails(p)
        \/ http_exception(p)

SpecFault == Init /\ [][NextFault]_vars

\* ------------------------------------------------------------ claim helpers
\* the caller whose step this is: every action moves its caller's pc
Acts(p) == pc'[p] # pc[p]

RECURSIVE SumChanges(_, _, _)
\* sum of quantity_change over the first n movements of the key
SumChanges(n, product_id, warehouse_id) ==
    IF n = 0 THEN 0
    ELSE SumChanges(n - 1, product_id, warehouse_id)
         + (IF /\ stock_movements[n].product_id = product_id
               /\ stock_movements[n].warehouse_id = warehouse_id
            THEN stock_movements[n].quantity_change ELSE 0)

InFlight(p) == pc[p] \in {"update_stock", "commit"}

Resolves(req) ==
    /\ \E pr \in Products : pr.barcode = req.product_barcode
    /\ \E w \in Warehouses : w.barcode = req.warehouse_barcode

INSUFFICIENT == "Insufficient stock. Available"

\* the step on which update_stock raises: it leaves the query for the except branch
Raises(p) == pc[p] = "update_stock" /\ pc'[p] = "log_scan"
\* the step on which update_stock commits
Commits(p) == pc[p] = "commit" /\ pc'[p] = "log_scan"
\* the step on which update_stock has read the balance and goes on to commit
Proceeds(p) == pc[p] = "update_stock" /\ pc'[p] = "commit"

\* -------------------------------------------------------------------- claims

(* C1: Non-negativity.  After every step every stored balance is >= 0, and   *)
(* an update_stock whose old balance plus quantity_change is negative fails  *)
(* and leaves stock_levels exactly as it was.                                *)
C1_NonNegativity ==
    [][ /\ \A i \in DOMAIN stock_levels' : stock_levels'[i].quantity >= 0
        /\ \A p \in Procs :
             (pc[p] = "update_stock" /\ Acts(p)) =>
                LET s == session[p]
                    bs == get_stock_level(s.product_id, s.warehouse_id)
                IN /\ (\A b \in bs : b + s.quantity_change < 0) => Raises(p)
                   /\ Raises(p) => /\ stock_levels' = stock_levels
                                   /\ ~result'[p].success
                                   /\ \E b \in bs : b + s.quantity_change < 0
      ]_vars

\* an update_stock has failed against a positive balance
C1_Witness ==
    \E p \in Procs :
        /\ pc[p] = "log_scan"
        /\ result[p].error.msg = INSUFFICIENT
        /\ result[p].error.available > 0

(* C2: Ledger consistency.  In every state of the database and for every     *)
(* (product, warehouse) key, StockLevel.quantity equals the sum of           *)
(* quantity_change over the StockMovement rows of the key (0 with no row).   *)
C2_LedgerConsistency ==
    \A k \in Keys :
        \A q \in get_stock_level(k[1], k[2]) :
            q = SumChanges(Len(stock_movements), k[1], k[2])

(* C3: No lost updates.  When N update_stock(+1) calls on one key, started   *)
(* from an empty ledger, have all finished, the balance of the key is N.     *)
C3_NoLostUpdates ==
    \A k \in Keys :
        ( /\ \A p \in Procs : ~InFlight(p)
          /\ \A i \in DOMAIN stock_movements :
                /\ stock_movements[i].product_id = k[1]
                /\ stock_movements[i].warehouse_id = k[2]
                /\ stock_movements[i].quantity_change = 1 )
        => \A q \in get_stock_level(k[1], k[2]) : q = Len(stock_movements)

(* C4: A failing update_stock changes nothing.  The step on which            *)
(* update_stock raises reports insufficient stock, creates or modifies no    *)
(* StockLevel row (also when the key has none) and inserts no StockMovement; *)
(* nor does any later step of the failed call.                               *)
C4_FailedUpdateChangesNothing ==
    [][ \A p \in Procs :
          /\ Raises(p) =>
                /\ result'[p].error.msg = INSUFFICIENT
                /\ ~result'[p].success
                /\ stock_levels' = stock_levels
                /\ stock_movements' = stock_movements
          /\ (Acts(p) /\ pc[p] \in {"log_scan", "broadcast"} /\ ~result[p].success) =>
                /\ stock_levels' = stock_levels
                /\ stock_movements' = stock_movements
      ]_vars

\* an update_stock has failed on a key that has no StockLevel row
C4_Witness ==
    \E p \in Procs :
        /\ pc[p] = "log_scan"
        /\ result[p].error.msg = INSUFFICIENT
        /\ stock_levels = <<>>
        /\ stock_movements = <<>>

(* C5: A successful update_stock.  The balance b it reads is a stored        *)
(* balance of the key (0 if absent) with b + d >= 0; its commit stores b + d *)
(* in the row it read (a new row if there was none), touches no other row,   *)
(* appends exactly one StockMovement with quantity_change d and the given    *)
(* type, and returns old_quantity b, new_quantity b + d and the id of that   *)
(* movement.                                                                 *)
C5_SuccessfulUpdate ==
    [][ \A p \in Procs :
          /\ Proceeds(p) =>
                LET s == session[p]
                IN /\ session'[p].old_qty \in get_stock_level(s.product_id, s.warehouse_id)
                   /\ session'[p].old_qty + s.quantity_change >= 0
                   /\ (session'[p].stock = 0) = (matching_rows(s.product_id, s.warehouse_id) = {})
          /\ Commits(p) =>
                LET s == session[p]
                    b == s.old_qty
                    d == s.quantity_change
                    row == IF s.stock = 0 THEN Len(stock_levels) + 1 ELSE s.stock
                IN /\ Len(stock_levels') = Len(stock_levels) + (IF s.stock = 0 THEN 1 ELSE 0)
                   /\ stock_levels'[row].product_id = s.product_id
                   /\ stock_levels'[row].warehouse_id = s.warehouse_id
                   /\ stock_levels'[row].quantity = b + d
                   /\ \A i \in DOMAIN stock_levels : i # row => stock_levels'[i] = stock_levels[i]
                   /\ Len(stock_movements') = Len(stock_movements) + 1
                   /\ SubSeq(stock_movements', 1, Len(stock_movements)) = stock_movements
                   /\ LET m == stock_movements'[Len(stock_movements')]
                      IN /\ m.quantity_change = d
                         /\ m.movement_type = s.movement_type
                         /\ m.product_id = s.product_id
                         /\ m.warehouse_id = s.warehouse_id
                   /\ result'[p].success
                   /\ result'[p].old_quantity = b
                   /\ result'[p].new_quantity = b + d
                   /\ result'[p].movement_id = Len(stock_movements')
      ]_vars

\* an update_stock has succeeded on a key that had a positive balance
C5_Witness ==
    \E p \in Procs :
        /\ pc[p] = "log_scan"
        /\ result[p].success
        /\ result[p].old_quantity > 0
        /\ result[p].quantity_change # 0
        /\ result[p].movement_id = Len(stock_movements)

C7_ResolutionFailureShortCircuits ==
    [][ \A p \in Procs :
          /\ (pc[p] = "idle" /\ Acts(p) /\ ~Resolves(request'[p])) =>
                /\ pc'[p] = "log_scan"
                /\ ~result'[p].success
                /\ result'[p].error =
                      IF \E pr \in Products : pr.barcode = request'[p].product_barcode
                      THEN WarehouseNotFound(request'[p].warehouse_barcode)
                      ELSE ProductNotFound(request'[p].product_barcode)
          /\ InFlight(p)' => Resolves(request'[p])
          /\ (Acts(p) /\ ~Resolves(IF pc[p] = "idle" THEN request'[p] ELSE request[p])) =>
                /\ stock_levels' = stock_levels
                /\ stock_movements' = stock_movements
      ]_vars

\* a call with a known product and an unknown warehouse barcode has its outcome
C7_Witness ==
    \E p \in Procs :
        /\ pc[p] = "broadcast"
        /\ result[p].error = WarehouseNotFound("XX")
        /\ stock_movements # <<>>

(* C8: Every failed receipt/delivery scan has a ScanLog entry with           *)
(* success = 0 whose error_message is not null and is the reason the         *)
(* outcome reports.                                                          *)
C8_FailedLogRecordsReason ==
    /\ \A i \in DOMAIN scan_logs :
          scan_logs[i].success = 0 => scan_logs[i].error_message # NoError
    /\ \A p \in Procs :
          (pc[p] = "broadcast" /\ ~result[p].success) =>
             \E i \in DOMAIN scan_logs :
                /\ scan_logs[i].success = 0
                /\ scan_logs[i].error_message = result[p].error

(* C9: A delivery of more than the balance fails and is not clamped.  When   *)
(* the quantity of a delivery exceeds every stored balance of its key, the   *)
(* update_stock step reports insufficient stock with the balance it read,    *)
(* leaves StockLevel and StockMovement as they were, and the call's log step *)
(* appends one ScanLog entry with success = 0 and the requested quantity.    *)
C9_OverDeliveryFails ==
    [][ \A p \in Procs :
          /\ ( /\ pc[p] = "update_stock" /\ Acts(p)
               /\ request[p].action = "delivery"
               /\ \A b \in get_stock_level(session[p].product_id, session[p].warehouse_id) :
                     request[p].quantity > b ) =>
                /\ pc'[p] = "log_scan"
                /\ ~result'[p].success
                /\ result'[p].error.msg = INSUFFICIENT
                /\ result'[p].error.available \in
                        get_stock_level(session[p].product_id, session[p].warehouse_id)
                /\ stock_levels' = stock_levels
                /\ stock_movements' = stock_movements
          /\ (pc[p] = "log_scan" /\ Acts(p) /\ result[p].error.msg = INSUFFICIENT) =>
                /\ Len(scan_logs') = Len(scan_logs) + 1
                /\ SubSeq(scan_logs', 1, Len(scan_logs)) = scan_logs
                /\ scan_logs'[Len(scan_logs')].success = 0
                /\ scan_logs'[Len(scan_logs')].action_taken = request[p].action
                /\ scan_logs'[Len(scan_logs')].quantity = request[p].quantity
                /\ stock_levels' = stock_levels
                /\ stock_movements' = stock_movements
      ]_vars

\* a delivery of more than a positive balance has failed and been logged
C9_Witness ==
    \E p \in Procs :
        /\ pc[p] = "broadcast"
        /\ request[p].action = "delivery"
        /\ result[p].error.msg = INSUFFICIENT
        /\ result[p].error.available > 0
        /\ request[p].quantity > result[p].error.available
        /\ scan_logs[Len(scan_logs)].success = 0

\* C10's two readings share this: with both barcodes resolved, a receipt
\* (when receiptPre allows it) and a delivery of q <= balance go on to commit,
\* the commit stores and returns balance + q resp. balance - q and appends one
\* movement of the scan's kind and signed quantity, and no other step of the
\* call appends a movement.
ScanMapsToAdjust(p, receiptPre) ==
    LET s == session[p]
        q == request[p].quantity
        bs == get_stock_level(s.product_id, s.warehouse_id)
    IN /\ ( /\ pc[p] = "update_stock" /\ Acts(p)
            /\ request[p].action = "receipt"
            /\ receiptPre => \A b \in bs : b + q >= 0 ) =>
              /\ pc'[p] = "commit"
              /\ session'[p].old_qty \in bs
              /\ session'[p].new_qty = session'[p].old_qty + q
       /\ ( /\ pc[p] = "update_stock" /\ Acts(p)
            /\ request[p].action = "delivery"
            /\ \A b \in bs : q <= b ) =>
              /\ pc'[p] = "commit"
              /\ session'[p].old_qty \in bs
              /\ session'[p].new_qty = session'[p].old_qty - q
       /\ Commits(p) =>
              /\ result'[p].success
              /\ result'[p].old_quantity = s.old_qty
              /\ result'[p].new_quantity =
                    IF request[p].action = "receipt" THEN s.old_qty + q ELSE s.old_qty - q
              /\ Len(stock_movements') = Len(stock_movements) + 1
              /\ stock_movements'[Len(stock_movements')].movement_type =
                    IF request[p].action = "receipt" THEN SCAN_RECEIPT ELSE SCAN_DELIVERY
              /\ stock_movements'[Len(stock_movements')].quantity_change =
                    IF request[p].action = "receipt" THEN q ELSE 0 - q
       /\ (Acts(p) /\ ~Commits(p)) => stock_movements' = stock_movements

lookup_barcode_warehouse_first(barcode) ==
    /\ LET product == find_product_by_barcode(barcode)
           warehouse == find_warehouse_by_barcode(barcode)
       IN reply' =
            IF warehouse # NoRow
            THEN [op |-> "lookup_barcode", status |-> 200,
                  value |-> <<[type |-> "warehouse", id |-> warehouse.id, barcode |-> warehouse.barcode]>>]
            ELSE IF product # NoRow
            THEN [op |-> "lookup_barcode", status |-> 200,
                  value |-> <<[type |-> "product", id |-> product.id, barcode |-> product.barcode]>>]
            ELSE [op |-> "lookup_barcode", status |-> 404, value |-> <<>>]
    /\ UNCHANGED <<ledger_vars, obs_vars, bcast_vars, scanner_vars, merge_vars>>

\* mutant: a lookup that finds nothing is written to the audit log
lookup_barcode_logged(barcode) ==
    /\ LET product == find_product_by_barcode(barcode)
           warehouse == find_warehouse_by_barcode(barcode)
       IN /\ reply' =
               IF product # NoRow
               THEN [op |-> "lookup_barcode", status |-> 200,
                     value |-> <<[type |-> "product", id |-> product.id, barcode |-> product.barcode]>>]
               ELSE IF warehouse # NoRow
               THEN [op |-> "lookup_barcode", status |-> 200,
                     value |-> <<[type |-> "warehouse", id |-> warehouse.id, barcode |-> warehouse.barcode]>>]
               ELSE [op |-> "lookup_barcode", status |-> 404, value |-> <<>>]
          /\ scan_logs' =
               IF product = NoRow /\ warehouse = NoRow /\ Len(scan_logs) < MaxCalls
               THEN Append(scan_logs, scan_log_row(barcode, "lookup", NULL, NULL, 0, FALSE, NoError))
               ELSE scan_logs
    /\ UNCHANGED <<stock_levels, stock_movements, pc, request, session, result, ncalls>>
    /\ UNCHANGED <<obs_vars, bcast_vars, scanner_vars, merge_vars>>

\* GET /scan/lookup/{barcode}: product first, then warehouse, else 404
lookup_barcode(barcode) ==
    /\ LET product == find_product_by_barcode(barcode)
           warehouse == find_warehouse_by_barcode(barcode)
       IN reply' =
            IF product # NoRow
            THEN [op |-> "lookup_barcode", status |-> 200,
                  value |-> <<[type |-> "product", id |-> product.id, barcode |-> product.barcode]>>]
            ELSE IF warehouse # NoRow
            THEN [op |-> "lookup_barcode", status |-> 200,
                  value |-> <<[type |-> "warehouse", id |-> warehouse.id, barcode |-> warehouse.barcode]>>]
            ELSE [op |-> "lookup_barcode", status |-> 404, value |-> <<>>]
    /\ UNCHANGED <<ledger_vars, obs_vars, bcast_vars, scanner_vars, merge_vars>>

\* mutant: reading the level of an untouched pair creates its row
read_stock_level_creates(product_id, warehouse_id) ==
    /\ \E q \in get_stock_level(product_id, warehouse_id) :
         reply' = [op |-> "get_stock_level", status |-> 200, value |-> <<q>>]
    /\ stock_levels' = IF matching_rows(product_id, warehouse_id) = {}
                       THEN Append(stock_levels,
                                [product_id |-> product_id, warehouse_id |-> warehouse_id, quantity |-> 0])
                       ELSE stock_levels
    /\ UNCHANGED <<stock_movements, scan_logs, pc, request, session, result, ncalls>>
    /\ UNCHANGED <<obs_vars, bcast_vars, scanner_vars, merge_vars>>

\* a call of ScannerDatabaseOperations.get_stock_level
read_stock_level(product_id, warehouse_id) ==
    /\ \E q \in get_stock_level(product_id, warehouse_id) :
         reply' = [op |-> "get_stock_level", status |-> 200, value |-> <<q>>]
    /\ UNCHANGED <<ledger_vars, obs_vars, bcast_vars, scanner_vars, merge_vars>>

\* the ids of the ScanLog rows passing the filters, newest first (rows are
\* stamped in insertion order); a filter that is None is not applied
RECURSIVE history_ids(_, _, _)
history_ids(n, product_id, warehouse_id) ==
    IF n = 0 THEN <<>>
    ELSE IF /\ (product_id = NULL \/ scan_logs[n].product_id = product_id)
            /\ (warehouse_id = NULL \/ scan_logs[n].warehouse_id = warehouse_id)
         THEN <<n>> \o history_ids(n - 1, product_id, warehouse_id)
         ELSE history_ids(n - 1, product_id, warehouse_id)

\* mutant: the oldest rows are returned, oldest first
history_oldest_first(limit, product_id, warehouse_id) ==
    LET ids == history_ids(Len(scan_logs), product_id, warehouse_id)
        n == IF Len(ids) < limit THEN Len(ids) ELSE limit
    IN [i \in 1 .. n |->
            [id |-> ids[Len(ids) + 1 - i], barcode |-> scan_logs[ids[Len(ids) + 1 - i]].barcode_data,
             type |-> scan_logs[ids[Len(ids) + 1 - i]].barcode_type,
             action |-> scan_logs[ids[Len(ids) + 1 - i]].action_taken,
             success |-> scan_logs[ids[Len(ids) + 1 - i]].success = 1,
             error |-> scan_logs[ids[Len(ids) + 1 - i]].error_message]]

\* query.limit(limit).all(), each row turned into its dict
history(limit, product_id, warehouse_id) ==
    LET ids == history_ids(Len(scan_logs), product_id, warehouse_id)
        n == IF Len(ids) < limit THEN Len(ids) ELSE limit
    IN [i \in 1 .. n |->
            [id |-> ids[i], barcode |-> scan_logs[ids[i]].barcode_data,
             type |-> scan_logs[ids[i]].barcode_type,
             action |-> scan_logs[ids[i]].action_taken,
             success |-> scan_logs[ids[i]].success = 1,
             error |-> scan_logs[ids[i]].error_message]]

\* GET /scan/history
get_scan_history(limit, product_id, warehouse_id) ==
    /\ reply' = [op |-> "get_scan_history", status |-> 200,
                 value |-> history(limit, product_id, warehouse_id)]
    /\ UNCHANGED <<ledger_vars, obs_vars, bcast_vars, scanner_vars, merge_vars>>

\* ------------------------------------------------------- scanner registry
\* mutant: a start on a registered camera makes and registers a new scanner
start_scanner_restarts(camera_id) ==
    /\ \/ /\ Len(scanners) < MaxScanners
          /\ scanners' = Append(scanners, [camera_id |-> camera_id, is_running |-> TRUE])
          /\ active_scanners' = [active_scanners EXCEPT ![camera_id] = Len(scanners) + 1]
          /\ reply' = [op |-> "start_scanner", status |-> 200, value |-> <<"started successfully">>]
       \/ /\ reply' = [op |-> "start_scanner", status |-> 200, value |-> <<"Failed to start camera">>]
          /\ UNCHANGED scanner_vars
    /\ UNCHANGED <<ledger_vars, obs_vars, bcast_vars, merge_vars>>

\* POST /scanner/start
start_scanner(camera_id) ==
    /\ IF active_scanners[camera_id] # 0
       THEN /\ reply' = [op |-> "start_scanner", status |-> 200, value |-> <<"already running">>]
            /\ UNCHANGED scanner_vars
       ELSE \/ /\ Len(scanners) < MaxScanners
               /\ scanners' = Append(scanners, [camera_id |-> camera_id, is_running |-> TRUE])
               /\ active_scanners' = [active_scanners EXCEPT ![camera_id] = Len(scanners) + 1]
               /\ reply' = [op |-> "start_scanner", status |-> 200, value |-> <<"started successfully">>]
            \/ /\ reply' = [op |-> "start_scanner", status |-> 200, value |-> <<"Failed to start camera">>]
               /\ UNCHANGED scanner_vars
    /\ UNCHANGED <<ledger_vars, obs_vars, bcast_vars, merge_vars>>

\* mutant: the registry entry is deleted and the camera keeps running
stop_scanner_keeps_running(camera_id) ==
    /\ IF active_scanners[camera_id] = 0
       THEN /\ reply' = [op |-> "stop_scanner", status |-> 404, value |-> <<"not found">>]
            /\ UNCHANGED scanner_vars
       ELSE /\ active_scanners' = [active_scanners EXCEPT ![camera_id] = 0]
            /\ UNCHANGED scanners
            /\ reply' = [op |-> "stop_scanner", status |-> 200, value |-> <<"stopped">>]
    /\ UNCHANGED <<ledger_vars, obs_vars, bcast_vars, merge_vars>>

\* mutant: the camera is stopped and the registry entry stays
stop_scanner_keeps_entry(camera_id) ==
    /\ IF active_scanners[camera_id] = 0
       THEN /\ reply' = [op |-> "stop_scanner", status |-> 404, value |-> <<"not found">>]
            /\ UNCHANGED scanner_vars
       ELSE /\ scanners' = [scanners EXCEPT ![active_scanners[camera_id]].is_running = FALSE]
            /\ UNCHANGED active_scanners
            /\ reply' = [op |-> "stop_scanner", status |-> 200, value |-> <<"stopped">>]
    /\ UNCHANGED <<ledger_vars, obs_vars, bcast_vars, merge_vars>>

\* POST /scanner/stop/{camera_id}: stop_camera() releases the capture and
\* clears is_running, then the registry entry is deleted
stop_scanner(camera_id) ==
    /\ IF active_scanners[camera_id] = 0
       THEN /\ reply' = [op |-> "stop_scanner", status |-> 404, value |-> <<"not found">>]
            /\ UNCHANGED scanner_vars
       ELSE /\ scanners' = [scanners EXCEPT ![active_scanners[camera_id]].is_running = FALSE]
            /\ active_scanners' = [active_scanners EXCEPT ![camera_id] = 0]
            /\ reply' = [op |-> "stop_scanner", status |-> 200, value |-> <<"stopped">>]
    /\ UNCHANGED <<ledger_vars, obs_vars, bcast_vars, merge_vars>>

\* GET /scanner/capture/{camera_id}: capture_and_scan() gives no frame when
\* the scanner is not running or cap.read() fails
capture_frame(camera_id) ==
    /\ IF active_scanners[camera_id] = 0
       THEN reply' = [op |-> "capture_frame", status |-> 404, value |-> <<"not running">>]
       ELSE \/ /\ scanners[active_scanners[camera_id]].is_running
               /\ reply' = [op |-> "capture_frame", status |-> 200, value |-> <<"frame">>]
            \/ reply' = [op |-> "capture_frame", status |-> 500, value |-> <<"Failed to capture frame">>]
    /\ UNCHANGED <<ledger_vars, obs_vars, bcast_vars, scanner_vars, merge_vars>>

\* ------------------------------------------------------- the whole service
Barcodes == ProductBarcodes \cup WarehouseBarcodes

\* the websocket the endpoints run next to
Observers == {1}

NextAll ==
    \/ \E p \in Callers :
        \/ scan_receipt(p) /\ ObservedRequest(p)
        \/ scan_delivery(p) /\ ObservedRequest(p)
        \/ update_stock_query(p)
        \/ update_stock_commit(p)
        \/ log_scan(p)
        \/ broadcast_scan_result(p)
        \/ broadcast_send(p)
        \/ broadcast_send_raises(p)
        \/ broadcast_return(p)
    \/ \E w \in Observers : websocket_scanner(w)
    \/ \E barcode \in Barcodes : lookup_barcode(barcode)
    \/ \E k \in Keys : read_stock_level(k[1], k[2])
    \/ \E limit \in 1 .. MaxObserved, product_id \in ProductIds \cup {NULL},
          warehouse_id \in WarehouseIds \cup {NULL} :
            get_scan_history(limit, product_id, warehouse_id)
    \/ \E camera_id \in Cameras :
        \/ start_scanner(camera_id)
        \/ stop_scanner(camera_id)
        \/ capture_frame(camera_id)

SpecAll == Init /\ [][NextAll]_vars

\* ------------------------------------------------------- scans and reads
\* two concurrent scan requests next to the read endpoints
NextReads ==
    \/ \E p \in Procs :
        \/ scan_receipt(p) /\ ObservedRequest(p)
        \/ scan_delivery(p) /\ ObservedRequest(p)
        \/ update_stock_query(p)
        \/ update_stock_commit(p)
        \/ log_scan(p)
        \/ broadcast_scan_result(p)
    \/ \E barcode \in Barcodes : lookup_barcode(barcode)
    \/ \E k \in Keys : read_stock_level(k[1], k[2])
    \/ \E limit \in 1 .. MaxObserved, product_id \in ProductIds \cup {NULL},
          warehouse_id \in WarehouseIds \cup {NULL} :
            get_scan_history(limit, product_id, warehouse_id)

SpecReads == Init /\ [][NextReads]_vars

\* the requests made next to get_stock_level calls: any quantity to or from
\* warehouse WB1, of a known or an unknown product
LevelRequest(p) ==
    request'[p].warehouse_barcode = "WB1"

\* the ledger with get_stock_level calls next to it
NextLevels ==
    \/ \E p \in Procs :
        \/ scan_receipt(p) /\ LevelRequest(p)
        \/ scan_delivery(p) /\ LevelRequest(p)
        \/ update_stock_query(p)
        \/ update_stock_commit(p)
        \/ log_scan(p)
        \/ broadcast_scan_result(p)
    \/ \E k \in Keys : read_stock_level(k[1], k[2])

SpecLevels == Init /\ [][NextLevels]_vars

(* C11: No partial success.  A receipt/delivery call that ends without an    *)
(* outcome of success = true (it returns success = false, or its error       *)
(* surfaces as an HTTP error because writing the ScanLog entry failed) has   *)
(* inserted no movement and changed no balance.                              *)
C11_NoPartialSuccess ==
    \A p \in Procs :
        /\ pc[p] = "http_400" => result[p].movement_id = 0
        /\ (pc[p] \in {"log_scan", "broadcast", "sending"} /\ ~result[p].success)
              => result[p].movement_id = 0

(* C12: Storage failure is all-or-nothing.  A step on which update_stock's   *)
(* commit fails leaves StockLevel and StockMovement as they were; a step     *)
(* that appends a movement appends exactly one and stores the matching       *)
(* balance in the same step; no step changes a balance without appending a   *)
(* movement.                                                                 *)
C12_CommitAllOrNothing ==
    [][ /\ \A p \in Procs :
             (pc[p] = "commit" /\ Acts(p) /\ ~result'[p].success) =>
                /\ stock_levels' = stock_levels
                /\ stock_movements' = stock_movements
        /\ stock_movements' # stock_movements =>
             /\ Len(stock_movements') = Len(stock_movements) + 1
             /\ SubSeq(stock_movements', 1, Len(stock_movements)) = stock_movements
             /\ \E p \in Procs :
                  /\ Commits(p) /\ result'[p].success
                  /\ LET row == IF session[p].stock = 0 THEN Len(stock_levels) + 1
                                ELSE session[p].stock
                     IN /\ row \in DOMAIN stock_levels'
                        /\ stock_levels'[row].product_id =
                              stock_movements'[Len(stock_movements')].product_id
                        /\ stock_levels'[row].warehouse_id =
                              stock_movements'[Len(stock_movements')].warehouse_id
                        /\ stock_levels'[row].quantity = result'[p].new_quantity
        /\ stock_levels' # stock_levels => stock_movements' # stock_movements
      ]_vars

\* the commit of an update_stock has failed after an earlier one went through
C12_Witness ==
    \E p \in Procs :
        /\ pc[p] = "log_scan"
        /\ result[p].error = StorageUnavailable("commit")
        /\ Len(stock_movements) = 1
        /\ Len(stock_levels) = 1

\* the events (messages of type scan_result) a socket has been sent
Events(w) == { i \in DOMAIN received[w] : received[w][i].type = "scan_result" }

(* C13: A send of the broadcast loop that fails (the loop passes a           *)
(* connection without delivering to it) leaves StockLevel, StockMovement     *)
(* and ScanLog as committed, leaves the call's outcome as it is, and the     *)
(* loop goes on with the next connection of the list.                        *)
C13_SendFailureIsolated ==
    [][ \A p \in Procs :
          (pc[p] = "sending" /\ pc'[p] = "sending" /\ bidx'[p] # bidx[p] /\ received' = received) =>
             /\ stock_levels' = stock_levels
             /\ stock_movements' = stock_movements
             /\ scan_logs' = scan_logs
             /\ result'[p] = result[p]
             /\ message'[p] = message[p]
             /\ active_connections' = active_connections
             /\ bidx'[p] = bidx[p] + 1
      ]_vars

\* the send to the first of two observers failed, the second one got the event
C13_Witness ==
    \E p \in Procs :
        /\ pc[p] = "sending"
        /\ active_connections = <<1, 2>>
        /\ bidx[p] = 2
        /\ Events(1) = {}
        /\ \E i \in Events(2) : received[2][i] = message[p]
        /\ Len(scan_logs) = 1

(* C14: Order within a call.  While a call's broadcast is pending or its     *)
(* sends are under way, the call's ScanLog row is already written and, for   *)
(* a successful call, its movement and balance are already committed; the    *)
(* same holds for every event an observer has been sent.                     *)
C14_OrderWithinCall ==
    /\ \A p \in Procs :
         pc[p] \in {"broadcast", "sending"} =>
            /\ Len(scan_logs) = ncalls
            /\ scan_logs[Len(scan_logs)].barcode_data = request[p].product_barcode
            /\ scan_logs[Len(scan_logs)].success = (IF result[p].success THEN 1 ELSE 0)
            /\ result[p].success =>
                 /\ result[p].movement_id \in DOMAIN stock_movements
                 /\ matching_rows(result[p].product, result[p].warehouse) # {}
    /\ \A w \in Sockets : \A i \in Events(w) :
         /\ received[w][i].timestamp <= Len(scan_logs)
         /\ received[w][i].data.success =>
              received[w][i].data.movement_id \in DOMAIN stock_movements

\* an observer has been sent the event of a successful call
C14_Witness ==
    \E w \in Sockets : \E i \in Events(w) :
        /\ received[w][i].data.success
        /\ received[w][i].data.movement_id = 1

(* C15: At-most-once, no replay.  No observer connection is sent the same    *)
(* event twice, and no observer is sent an event whose broadcast was over    *)
(* when it connected.                                                        *)
C15_AtMostOnceNoReplay ==
    \A w \in Sockets :
        /\ \A i, j \in Events(w) :
             received[w][i].timestamp = received[w][j].timestamp => i = j
        /\ \A i \in Events(w) : received[w][i].timestamp \notin joined[w]

\* an observer that connected after one event's broadcast was sent the next one
C15_Witness ==
    \E w \in Sockets :
        /\ joined[w] # {}
        /\ Events(w) # {}

(* C16: Events are ledger-affecting.  Every event sent to an observer is     *)
(* the outcome of a call whose adjustment succeeded; a call whose            *)
(* adjustment failed (or that never reached the adjustment) has no event.    *)
C16_EventsAreLedgerAffecting ==
    /\ \A w \in Sockets : \A i \in Events(w) : received[w][i].data.success
    /\ \A p \in Procs : pc[p] = "sending" => result[p].success

\* seq is an initial part of its successor
IsPrefix(old, new) ==
    /\ Len(old) <= Len(new)
    /\ SubSeq(new, 1, Len(old)) = old

(* C17: Movement and ScanLog are append-only.  Across every operation of     *)
(* the service, the StockMovement rows and the ScanLog rows that exist       *)
(* before a step exist unchanged, at the same positions, after it.           *)
C17_AppendOnly ==
    [][ /\ IsPrefix(stock_movements, stock_movements')
        /\ IsPrefix(scan_logs, scan_logs')
      ]_vars

\* a second movement and a second log row have been appended to the first
C17_Witness ==
    /\ Len(stock_movements) = 2
    /\ Len(scan_logs) = 2
    /\ reply.op # NULL

(* C19: Only update_stock writes StockLevel.  Every step that changes a      *)
(* StockLevel or StockMovement row is the commit step of an update_stock;    *)
(* the steps of log_scan, of the lookups, get_stock_level, get_scan_history, *)
(* lookup_barcode, broadcast_scan_result and of scanner start/stop/capture   *)
(* leave both tables as they are.                                            *)
C19_OnlyUpdateStockWrites ==
    [][ /\ (stock_levels' # stock_levels \/ stock_movements' # stock_movements)
              => \E p \in Procs : Commits(p)
        /\ ( \/ reply' # reply
             \/ scanner_vars' # scanner_vars
             \/ received' # received
             \/ bidx' # bidx
             \/ scan_logs' # scan_logs
             \/ \E p \in Procs : pc[p] \in {"idle", "broadcast", "sending"} /\ Acts(p) )
              => (stock_levels' = stock_levels /\ stock_movements' = stock_movements)
      ]_vars

\* with a balance stored, a read endpoint has answered, a scanner has been
\* started and an observer has been sent an event
C19_Witness ==
    /\ stock_levels # <<>>
    /\ reply.op \in {"get_stock_level", "get_scan_history", "lookup_barcode"}
    /\ scanners # <<>>
    /\ \E w \in Sockets : Events(w) # {}

(* C18: Key uniqueness.  There is at most one StockLevel row per (product,   *)
(* warehouse) pair, and exactly one for each pair that has had a successful  *)
(* update_stock (a movement), also when first touches run concurrently.      *)
C18_KeyUniqueness ==
    \A k \in Keys :
        /\ Cardinality(matching_rows(k[1], k[2])) <= 1
        /\ (\E i \in DOMAIN stock_movements :
                /\ stock_movements[i].product_id = k[1]
                /\ stock_movements[i].warehouse_id = k[2])
              => Cardinality(matching_rows(k[1], k[2])) = 1

\* ------------------------------------------------------- scan_frame
\* payloads as pyzbar gives them (bytes) and their utf-8 text
Payloads == { <<65>>, <<66>>, <<67>> }
decode(data) ==
    CASE data = <<65>> -> "A"
      [] data = <<66>> -> "B"
      [] data = <<67>> -> "C"

\* what a pass reports next to the payload: symbology and rectangle
Symbologies == { "QRCODE", "CODE128" }
Rects == { [left |-> 0, top |-> 0, width |-> 10, height |-> 10],
           [left |-> 5, top |-> 5, width |-> 10, height |-> 10] }
\* two readings of each payload, differing in symbology and in rectangle
Decoded == { b \in [data : Payloads, type : Symbologies, rect : Rects] :
                (b.type = "QRCODE") = (b.rect.left = 0) }

\* the lists one pass can return
RECURSIVE ListsUpTo(_)
ListsUpTo(n) ==
    IF n = 0 THEN { <<>> }
    ELSE ListsUpTo(n - 1) \cup
         { Append(l, b) : l \in { ll \in ListsUpTo(n - 1) : Len(ll) = n - 1 }, b \in Decoded }

\* the keys of {b.data: b for b in list}: a dict keeps its keys in the order
\* of their first insertion
RECURSIVE dict_keys(_)
dict_keys(list) ==
    IF list = <<>> THEN <<>>
    ELSE LET front == dict_keys(SubSeq(list, 1, Len(list) - 1))
             key == list[Len(list)].data
         IN IF \E i \in DOMAIN front : front[i] = key THEN front ELSE Append(front, key)

\* the value under a key: a later insertion replaces the earlier value
dict_value(list, key) ==
    list[CHOOSE i \in DOMAIN list :
            /\ list[i].data = key
            /\ \A j \in DOMAIN list : list[j].data = key => j <= i]

\* mutant: only the raw pass is kept
all_barcodes_raw_only(barcodes, barcodes_thresh) ==
    LET keys == dict_keys(barcodes)
    IN [i \in DOMAIN keys |-> dict_value(barcodes, keys[i])]

\* mutant: the two passes are concatenated as they are
all_barcodes_concatenated(barcodes, barcodes_thresh) == barcodes \o barcodes_thresh

\* all_barcodes = list({b.data: b for b in (barcodes + barcodes_thresh)}.values())
all_barcodes(barcodes, barcodes_thresh) ==
    LET list == barcodes \o barcodes_thresh
        keys == dict_keys(list)
    IN [i \in DOMAIN keys |-> dict_value(list, keys[i])]

\* the ScanResult built for one barcode
ScanResult(barcode) ==
    [data |-> decode(barcode.data), type |-> barcode.type,
     bbox |-> <<barcode.rect.left, barcode.rect.top, barcode.rect.width, barcode.rect.height>>,
     confidence |-> 1]

\* BarcodeScanner.scan_frame on a frame whose two passes decode to detections
scan_frame ==
    /\ scan_results' =
         LET all == all_barcodes(detections[1], detections[2])
         IN [i \in DOMAIN all |-> ScanResult(all[i])]
    /\ UNCHANGED <<detections, ledger_vars, obs_vars, bcast_vars, scanner_vars, reply>>

InitMerge ==
    /\ InitService
    /\ detections \in ListsUpTo(MaxDetections) \X ListsUpTo(MaxDetections)
    /\ scan_results = <<>>

NextMerge == scan_frame

SpecMerge == InitMerge /\ [][NextMerge]_vars

\* the payload texts of the concatenation of both passes
concatenation == [i \in 1 .. (Len(detections[1]) + Len(detections[2])) |->
                    decode((detections[1] \o detections[2])[i].data)]

\* position of the first occurrence of a text in the concatenation
first_occurrence(text) ==
    CHOOSE i \in DOMAIN concatenation :
        /\ concatenation[i] = text
        /\ \A j \in DOMAIN concatenation : concatenation[j] = text => i <= j

(* C20: Merging the raw pass and the thresholded pass.  Once scan_frame has  *)
(* run, every distinct payload of the two lists is in the result exactly     *)
(* once, nothing else is, and the results are ordered by the payloads'       *)
(* first occurrence in the concatenation raw + thresholded; for [[A,B],      *)
(* [B,C]] the result is [A,B,C].                                             *)
C20_MergeDistinctInOrder ==
    [][ /\ \A i \in DOMAIN concatenation :
             \E k \in DOMAIN scan_results' : scan_results'[k].data = concatenation[i]
        /\ \A k \in DOMAIN scan_results' :
             \E i \in DOMAIN concatenation : scan_results'[k].data = concatenation[i]
        /\ \A k, l \in DOMAIN scan_results' :
             k < l => /\ scan_results'[k].data # scan_results'[l].data
                      /\ first_occurrence(scan_results'[k].data)
                           < first_occurrence(scan_results'[l].data)
        /\ ( /\ [i \in DOMAIN detections[1] |-> decode(detections[1][i].data)] = <<"A", "B">>
             /\ [i \in DOMAIN detections[2] |-> decode(detections[2][i].data)] = <<"B", "C">> )
              => [k \in DOMAIN scan_results' |-> scan_results'[k].data] = <<"A", "B", "C">>
      ]_vars

\* scan_frame has merged [A,B] and [B,C]
C20_Witness ==
    /\ Len(detections[1]) = 2 /\ Len(detections[2]) = 2
    /\ decode(detections[1][1].data) = "A" /\ decode(detections[1][2].data) = "B"
    /\ decode(detections[2][1].data) = "B" /\ decode(detections[2][2].data) = "C"
    /\ Len(scan_results) = 3

\* the detections of both passes, raw pass first
concatenated == detections[1] \o detections[2]

(* C21: First-seen-wins.  Once scan_frame has run, the one result returned   *)
(* for a payload carries the symbology and the bounding region of the        *)
(* payload's first occurrence in the concatenation raw + thresholded, also   *)
(* when the payload occurs again later with another symbology or region.     *)
C21_FirstSeenWins ==
    [][ \A k \in DOMAIN scan_results' :
          LET first == concatenated[first_occurrence(scan_results'[k].data)]
          IN /\ scan_results'[k].type = first.type
             /\ scan_results'[k].bbox = ScanResult(first).bbox
      ]_vars

(* C22: Lookup with product priority.  lookup_barcode answers with the       *)
(* product when a product has the barcode (also when a warehouse has the     *)
(* same barcode), with the warehouse only when no product has it and a       *)
(* warehouse does, and with not found (404) when neither has it.             *)
C22_LookupProductPriority ==
    [][ \A barcode \in Barcodes :
          lookup_barcode(barcode) =>
             IF \E pr \in Products : pr.barcode = barcode
             THEN /\ reply'.status = 200
                  /\ reply'.value[1].type = "product"
                  /\ \E pr \in Products : pr.barcode = barcode /\ reply'.value[1].id = pr.id
             ELSE IF \E w \in Warehouses : w.barcode = barcode
             THEN /\ reply'.status = 200
                  /\ reply'.value[1].type = "warehouse"
                  /\ \E w \in Warehouses : w.barcode = barcode /\ reply'.value[1].id = w.id
             ELSE reply'.status = 404 /\ reply'.value = <<>>
      ]_vars

\* a barcode that a product and a warehouse share has been looked up
C22_Witness ==
    /\ reply.op = "lookup_barcode"
    /\ reply.status = 200
    /\ \E pr \in Products : pr.barcode = reply.value[1].barcode
    /\ \E w \in Warehouses : w.barcode = reply.value[1].barcode

(* C23: A lookup mutates nothing.  A lookup_barcode step, for a known or an  *)
(* unknown barcode, leaves StockLevel, StockMovement and ScanLog unchanged,  *)
(* and for an unknown barcode it answers not found (404).                    *)
C23_LookupMutatesNothing ==
    [][ \A barcode \in Barcodes :
          lookup_barcode(barcode) =>
             /\ stock_levels' = stock_levels
             /\ stock_movements' = stock_movements
             /\ scan_logs' = scan_logs
             /\ ( /\ \A pr \in Products : pr.barcode # barcode
                  /\ \A w \in Warehouses : w.barcode # barcode )
                   => (reply'.op = "lookup_barcode" /\ reply'.status = 404)
      ]_vars

\* an unknown barcode has been looked up while the ledger and the log hold rows
C23_Witness ==
    /\ reply.op = "lookup_barcode"
    /\ reply.status = 404
    /\ stock_movements # <<>>
    /\ scan_logs # <<>>

\* the ScanLog row passes the filters that are given
Matches(i, product_id, warehouse_id) ==
    /\ product_id # NULL => scan_logs[i].product_id = product_id
    /\ warehouse_id # NULL => scan_logs[i].warehouse_id = warehouse_id

(* C24: get_scan_history(limit, product_id?, warehouse_id?) returns at most  *)
(* limit entries, newest first, each of a ScanLog row that passes the given  *)
(* filters, and they are the newest such rows: every matching row that is    *)
(* left out is older than every returned one, and none is left out while     *)
(* fewer than limit are returned.                                            *)
C24_ScanHistory ==
    [][ (reply' # reply /\ reply'.op = "get_scan_history") =>
        \A limit \in 1 .. MaxObserved, product_id \in ProductIds \cup {NULL},
           warehouse_id \in WarehouseIds \cup {NULL} :
          get_scan_history(limit, product_id, warehouse_id) =>
             LET entries == reply'.value
                 returned == { entries[i].id : i \in DOMAIN entries }
                 matching == { i \in DOMAIN scan_logs : Matches(i, product_id, warehouse_id) }
             IN /\ Len(entries) <= limit
                /\ \A i, j \in DOMAIN entries : i < j => entries[i].id > entries[j].id
                /\ returned \subseteq matching
                /\ \A i \in DOMAIN entries :
                     /\ entries[i].barcode = scan_logs[entries[i].id].barcode_data
                     /\ entries[i].action = scan_logs[entries[i].id].action_taken
                     /\ entries[i].success = (scan_logs[entries[i].id].success = 1)
                /\ \A x \in matching \ returned : \A y \in returned : x < y
                /\ Len(entries) < limit => returned = matching
      ]_vars

\* the history has answered with the older of two log rows only
C24_Witness ==
    /\ reply.op = "get_scan_history"
    /\ Len(scan_logs) = 2
    /\ Len(reply.value) = 1
    /\ reply.value[1].id = 1

\* the key has had a successful update_stock
Adjusted(k) ==
    \E i \in DOMAIN stock_movements :
        /\ stock_movements[i].product_id = k[1]
        /\ stock_movements[i].warehouse_id = k[2]

(* C25: get_stock_level returns 0 for a key never successfully adjusted;     *)
(* right after a successful update_stock on the key it can only return the   *)
(* new_quantity that call returned, and every other step (failed             *)
(* update_stock calls included) leaves what it returns as it was.            *)
C25_StockLevelIsLastNewQuantity ==
    [][ \A k \in Keys :
          /\ ~Adjusted(k) => get_stock_level(k[1], k[2]) = {0}
          /\ \A p \in Procs :
               (Commits(p) /\ session[p].product_id = k[1] /\ session[p].warehouse_id = k[2]) =>
                  get_stock_level(k[1], k[2])' = {result'[p].new_quantity}
          /\ (\A p \in Procs :
                ~(Commits(p) /\ session[p].product_id = k[1] /\ session[p].warehouse_id = k[2])) =>
                  get_stock_level(k[1], k[2])' = get_stock_level(k[1], k[2])
      ]_vars

\* the StockLevel rows and the movements of a key, with their positions
RowsOf(k) == { <<i, stock_levels[i]>> : i \in matching_rows(k[1], k[2]) }
MovementsOf(k) ==
    { <<i, stock_movements[i]>> : i \in { j \in DOMAIN stock_movements :
                                            /\ stock_movements[j].product_id = k[1]
                                            /\ stock_movements[j].warehouse_id = k[2] } }

KeyOf(p) == <<session[p].product_id, session[p].warehouse_id>>

(* C26: Keys are independent.  A step of update_stock on key k, whether it   *)
(* commits or fails, leaves the StockLevel rows and the movements of every   *)
(* other key unchanged; and while an update_stock is in flight on one key,   *)
(* an update_stock on another key can always take its next step.             *)
C26_KeysIndependent ==
    /\ [][ \A p \in Procs :
             (InFlight(p) /\ Acts(p)) =>
                \A k \in Keys \ {KeyOf(p)} :
                    /\ RowsOf(k)' = RowsOf(k)
                    /\ MovementsOf(k)' = MovementsOf(k)
         ]_vars
    /\ [](\A p, q \in Procs :
            (InFlight(p) /\ InFlight(q) /\ KeyOf(p) # KeyOf(q)) =>
               /\ pc[q] = "update_stock" => ENABLED update_stock_query(q)
               /\ pc[q] = "commit" => ENABLED update_stock_commit(q))

\* an update_stock has committed on one key while another one, on a
\* different key, was in flight and is about to commit
C26_Witness ==
    \E p, q \in Procs :
        /\ pc[p] = "log_scan" /\ result[p].success
        /\ pc[q] = "commit"
        /\ result[p].warehouse # session[q].warehouse_id

(* C27: The ScanLog row of a receipt/delivery call records the product id    *)
(* whenever the product barcode resolved and the warehouse id whenever the   *)
(* warehouse barcode resolved (the warehouse is resolved after the product   *)
(* was found); an id is null only when that entity was unresolved.           *)
C27_LogRecordsResolvedIds ==
    [][ \A p \in Procs :
          (pc[p] = "log_scan" /\ Acts(p) /\ Len(scan_logs') = Len(scan_logs) + 1) =>
             LET row == scan_logs'[Len(scan_logs')]
                 product == find_product_by_barcode(request[p].product_barcode)
                 warehouse == find_warehouse_by_barcode(request[p].warehouse_barcode)
             IN /\ row.product_id = (IF product # NoRow THEN product.id ELSE NULL)
                /\ row.warehouse_id =
                     (IF product # NoRow /\ warehouse # NoRow THEN warehouse.id ELSE NULL)
      ]_vars

(* C28: update_stock with quantity_change = 0 is allowed.  It never fails    *)
(* the stock check; its commit succeeds, reports new_quantity =              *)
(* old_quantity, leaves every stored balance as it is (adding a StockLevel   *)
(* row with quantity 0 when it found none for the key) and appends exactly   *)
(* one movement, with quantity_change 0.                                     *)
C28_ZeroChange ==
    [][ \A p \in Procs :
          /\ (pc[p] = "update_stock" /\ Acts(p) /\ session[p].quantity_change = 0)
                => pc'[p] = "commit"
          /\ (Commits(p) /\ session[p].quantity_change = 0) =>
                /\ result'[p].success
                /\ result'[p].new_quantity = result'[p].old_quantity
                /\ stock_levels' =
                     IF session[p].stock = 0
                     THEN Append(stock_levels, [product_id |-> session[p].product_id,
                                                warehouse_id |-> session[p].warehouse_id,
                                                quantity |-> 0])
                     ELSE stock_levels
                /\ Len(stock_movements') = Len(stock_movements) + 1
                /\ SubSeq(stock_movements', 1, Len(stock_movements)) = stock_movements
                /\ stock_movements'[Len(stock_movements')].quantity_change = 0
                /\ stock_movements'[Len(stock_movements')].quantity = 0
                /\ stock_movements'[Len(stock_movements')].product_id = session[p].product_id
                /\ stock_movements'[Len(stock_movements')].warehouse_id = session[p].warehouse_id
      ]_vars

\* a change of zero has been committed on a key holding a positive balance
C28_Witness ==
    \E p \in Procs :
        /\ pc[p] = "log_scan"
        /\ result[p].success
        /\ result[p].quantity_change = 0
        /\ result[p].old_quantity > 0
        /\ Len(stock_movements) = 2

\* the caller is inside a receipt/delivery call that has failed
Failed(p) == pc[p] \in {"log_scan", "broadcast", "sending"} /\ ~result[p].success

(* C29: Scan failures are recoverable.  The step on which a scan fails       *)
(* (product not found, warehouse not found, insufficient stock) and every    *)
(* later step of the failed call leave StockLevel and StockMovement, and     *)
(* the other callers' calls, as they are, so a later scan meets the ledger   *)
(* it would have met without the failed one; and a caller that is not        *)
(* inside a call can always start a further receipt and a further delivery.  *)
C29_FailuresRecoverable ==
    /\ [][ \A p \in Procs :
             (Acts(p) /\ (Failed(p) \/ Failed(p)')) =>
                /\ stock_levels' = stock_levels
                /\ stock_movements' = stock_movements
                /\ \A q \in Procs \ {p} :
                     /\ pc'[q] = pc[q]
                     /\ session'[q] = session[q]
                     /\ result'[q] = result[q]
         ]_vars
    /\ [](\A p \in Procs :
            (pc[p] \notin {"update_stock", "commit", "log_scan", "broadcast", "sending"}
               /\ ncalls < MaxCalls) =>
               /\ ENABLED scan_receipt(p)
               /\ ENABLED scan_delivery(p))

\* after a failed scan, a later scan has succeeded
C29_Witness ==
    /\ Len(scan_logs) = 2
    /\ scan_logs[1].success = 0
    /\ scan_logs[2].success = 1
    /\ Len(stock_movements) = 1

(* C30: Catalog lookups are exact-match and total.  For every barcode,       *)
(* find_product_by_barcode returns a product whose barcode equals it when    *)
(* there is one and None otherwise (also for a barcode that only a           *)
(* warehouse has), and find_warehouse_by_barcode does the same on the        *)
(* warehouse catalog; neither fails.  A scan therefore goes on to            *)
(* update_stock exactly when both of its barcodes are in their catalog,      *)
(* with the ids of the entities carrying them.                               *)
C30_CatalogLookups ==
    [][ /\ \A barcode \in Barcodes :
             /\ IF \E pr \in Products : pr.barcode = barcode
                THEN /\ find_product_by_barcode(barcode) \in Products
                     /\ find_product_by_barcode(barcode).barcode = barcode
                ELSE find_product_by_barcode(barcode) = NoRow
             /\ IF \E w \in Warehouses : w.barcode = barcode
                THEN /\ find_warehouse_by_barcode(barcode) \in Warehouses
                     /\ find_warehouse_by_barcode(barcode).barcode = barcode
                ELSE find_warehouse_by_barcode(barcode) = NoRow
        /\ \A p \in Procs :
             (pc[p] = "idle" /\ Acts(p)) =>
                IF Resolves(request'[p])
                THEN /\ pc'[p] = "update_stock"
                     /\ \E pr \in Products :
                          /\ pr.barcode = request'[p].product_barcode
                          /\ session'[p].product_id = pr.id
                     /\ \E w \in Warehouses :
                          /\ w.barcode = request'[p].warehouse_barcode
                          /\ session'[p].warehouse_id = w.id
                ELSE /\ pc'[p] = "log_scan"
                     /\ ~result'[p].success
      ]_vars

\* both lookups have found their entity for a scan, and both have found
\* nothing for a looked-up barcode
C30_Witness ==
    /\ \E p \in Procs :
         /\ pc[p] = "update_stock"
         /\ session[p].product_id = "p1"
         /\ session[p].warehouse_id = "w1"
    /\ reply.op = "lookup_barcode"
    /\ reply.value = <<>>

\* ------------------------------------------- broadcast among disconnects
\* connection.send_text(message) raises for a connection whose peer has gone
\* or whose socket the handler has closed
broadcast_send_to_gone(p) ==
    /\ pc[p] = "sending"
    /\ bidx[p] < Len(active_connections)
    /\ ws_pc[active_connections[bidx[p] + 1]] = "closing"
    /\ broadcast_send_raises(p)

\* the observers connect while no broadcast is under way and leave at any
\* time; a send fails only for an observer that has gone
NextDisc ==
    \/ \E p \in Callers :
        \/ scan_receipt(p) /\ ObservedRequest(p)
        \/ scan_delivery(p) /\ ObservedRequest(p)
        \/ update_stock_query(p)
        \/ update_stock_commit(p)
        \/ log_scan(p)
        \/ broadcast_scan_result(p)
        \/ broadcast_send(p)
        \/ broadcast_send_to_gone(p)
        \/ broadcast_return(p)
    \/ \E w \in Sockets :
        \/ ws_accept(w) /\ (\A p \in Procs : pc[p] # "sending")
        \/ \E camera_id \in Cameras : ws_ensure_scanner(w, camera_id)
        \/ ws_capture_fails(w)
        \/ ws_disconnect(w)
        \/ ws_finally(w)

SpecDisc == Init /\ [][NextDisc]_vars

\* the positions of received[w] that hold the message m
Deliveries(w, m) == { i \in DOMAIN received[w] : received[w][i] = m }

(* C31: Broadcast under concurrent disconnects.  When broadcast_scan_result  *)
(* returns, every observer that was in active_connections when it started   *)
(* and is still in it, its peer still there, has been sent the event         *)
(* exactly once, whatever other observers disconnected and were removed      *)
(* while a send was awaited.  (No observer connects during a broadcast here, *)
(* so the observers in the list at the end were in it from the start.)       *)
C31_BroadcastUnderDisconnects ==
    [][ \A p \in Procs :
          (pc[p] = "sending" /\ pc'[p] # "sending") =>
             \A i \in DOMAIN active_connections :
                ws_pc[active_connections[i]] \in {"connected", "streaming"} =>
                   Cardinality(Deliveries(active_connections[i], message[p])) = 1
      ]_vars

(* C32: No over-delivery.  Under any interleaving of receipts and deliveries *)
(* on a key, the sum of quantity_change over the committed movements of the  *)
(* key is never negative: two concurrent deliveries of q from a balance of   *)
(* q do not both succeed.                                                    *)
C32_NoOverDelivery ==
    \A k \in Keys : SumChanges(Len(stock_movements), k[1], k[2]) >= 0

(* C33: Direction of scan actions.  For every quantity the request accepts   *)
(* (zero and negative ones included), a receipt scan that succeeds does not  *)
(* lower the balance of its key (the new_quantity it commits is not below    *)
(* the old_quantity it read) and a delivery scan that succeeds does not      *)
(* raise it.                                                                 *)
C33_Direction ==
    [][ \A p \in Procs :
          Commits(p) =>
             /\ request[p].action = "receipt" =>
                  result'[p].new_quantity >= result'[p].old_quantity
             /\ request[p].action = "delivery" =>
                  result'[p].new_quantity <= result'[p].old_quantity
      ]_vars

\* the positions of active_connections that hold the websocket w
PositionsOf(w) == { i \in DOMAIN active_connections : active_connections[i] = w }

(* C34: Observer registry cleanup.  A websocket is in active_connections,    *)
(* exactly once, from its accept until its handler ends; before the accept   *)
(* and after the handler has ended, by whichever path (camera failed to      *)
(* start, frame capture failed, client disconnect, other exception), it is   *)
(* not in the list.                                                          *)
C34_RegistryCleanup ==
    \A w \in Sockets :
        IF ws_pc[w] \in {"connected", "streaming", "closing"}
        THEN Cardinality(PositionsOf(w)) = 1
        ELSE PositionsOf(w) = {}

\* one handler has ended when its camera failed to start, while the other
\* observer is still registered
C34_Witness ==
    \E w \in Sockets :
        /\ ws_pc[w] = "closed"
        /\ ws_scanner[w] = 0
        /\ active_connections # <<>>

\* ------------------------------------------- scanner sessions and streams
\* the scanner endpoints next to the websocket handlers
NextScan ==
    \/ \E camera_id \in Cameras :
        \/ start_scanner(camera_id)
        \/ stop_scanner(camera_id)
        \/ capture_frame(camera_id)
    \/ \E w \in Sockets : websocket_scanner(w)

SpecScan == Init /\ [][NextScan]_vars

(* C35: Scanner session registry.  start_scanner on a registered camera id   *)
(* answers success = false and leaves the registry and the scanners as they  *)
(* are; on an unregistered id it registers a scanner exactly when the camera *)
(* started, and that scanner is running; stop_scanner on an unregistered id  *)
(* answers not-found and changes nothing; after a successful stop_scanner    *)
(* the id is absent, and an absent id can be started (again).                *)
C35_ScannerRegistry ==
    /\ [][ \A camera_id \in Cameras :
             /\ start_scanner(camera_id) =>
                  IF active_scanners[camera_id] # 0
                  THEN /\ reply'.value = <<"already running">>
                       /\ UNCHANGED scanner_vars
                  ELSE /\ (active_scanners'[camera_id] # 0)
                             = (reply'.value = <<"started successfully">>)
                       /\ active_scanners'[camera_id] # 0 =>
                            /\ scanners'[active_scanners'[camera_id]].is_running
                            /\ scanners'[active_scanners'[camera_id]].camera_id = camera_id
                            /\ SubSeq(scanners', 1, Len(scanners)) = scanners
                       /\ active_scanners'[camera_id] = 0 => UNCHANGED scanner_vars
             /\ stop_scanner(camera_id) =>
                  IF active_scanners[camera_id] = 0
                  THEN /\ reply'.status = 404
                       /\ UNCHANGED scanner_vars
                  ELSE /\ reply'.status = 200
                       /\ active_scanners'[camera_id] = 0
         ]_vars
    /\ [](\A camera_id \in Cameras :
            (active_scanners[camera_id] = 0 /\ Len(scanners) < MaxScanners) =>
                ENABLED (start_scanner(camera_id) /\ active_scanners'[camera_id] # 0))

\* a camera was started, stopped and started again
C35_Witness ==
    \E camera_id \in Cameras :
        /\ active_scanners[camera_id] = 2
        /\ ~scanners[1].is_running
        /\ scanners[2].is_running
        /\ reply = [op |-> "start_scanner", status |-> 200, value |-> <<"started successfully">>]

(* C36: In every reachable state, every scanner stored in active_scanners    *)
(* has is_running = true and is the scanner of that camera id, however       *)
(* start_scanner, stop_scanner, websocket_scanner and capture_frame          *)
(* interleave.                                                               *)
C36_RegisteredScannersRun ==
    \A camera_id \in Cameras :
        active_scanners[camera_id] # 0 =>
            /\ active_scanners[camera_id] \in DOMAIN scanners
            /\ scanners[active_scanners[camera_id]].is_running
            /\ scanners[active_scanners[camera_id]].camera_id = camera_id

\* a websocket handler still holds a stopped scanner while the camera is
\* registered again with a new one
C36_Witness ==
    \E camera_id \in Cameras, w \in Sockets :
        /\ active_scanners[camera_id] = 2
        /\ ws_pc[w] = "streaming"
        /\ ws_scanner[w] = 1
        /\ ~scanners[1].is_running

\* ------------------------------------------------------ the streaming loop
\* frame, results = scanner.capture_and_scan() gives a frame: the handler's
\* scanner is running and cap.read() succeeded; the handler goes on to send it
ws_capture(w) ==
    /\ ws_pc[w] = "streaming"
    /\ scanners[ws_scanner[w]].is_running
    /\ ws_pc' = [ws_pc EXCEPT ![w] = "frame"]
    /\ UNCHANGED <<ledger_vars, active_connections, ws_scanner, received, joined, bcast_vars, scanner_vars, reply, merge_vars>>

\* capture_and_scan() returns (None, []) because the scanner is not running:
\* the error is sent and the loop breaks
ws_capture_not_running(w) ==
    /\ ws_pc[w] = "streaming"
    /\ ~scanners[ws_scanner[w]].is_running
    /\ ws_capture_fails(w)

\* await websocket.send_json({"type": "frame", ...}) and the sleep are over:
\* back to the top of the loop
ws_send_frame(w) ==
    /\ ws_pc[w] = "frame"
    /\ ws_pc' = [ws_pc EXCEPT ![w] = "streaming"]
    /\ UNCHANGED <<ledger_vars, active_connections, ws_scanner, received, joined, bcast_vars, scanner_vars, reply, merge_vars>>

\* the send of the frame raises (WebSocketDisconnect or another exception)
ws_send_frame_raises(w) ==
    /\ ws_pc[w] = "frame"
    /\ ws_pc' = [ws_pc EXCEPT ![w] = "closing"]
    /\ UNCHANGED <<ledger_vars, active_connections, ws_scanner, received, joined, bcast_vars, scanner_vars, reply, merge_vars>>

\* the steps a handler takes by itself once the event loop runs it
ws_runs(w) ==
    \/ ws_capture_not_running(w)
    \/ ws_send_frame(w)
    \/ ws_send_frame_raises(w)
    \/ ws_finally(w)

NextStream ==
    \/ \E camera_id \in Cameras :
        \/ start_scanner(camera_id)
        \/ stop_scanner(camera_id)
        \/ capture_frame(camera_id)
    \/ \E w \in Sockets :
        \/ websocket_scanner(w)
        \/ ws_capture(w)
        \/ ws_capture_not_running(w)
        \/ ws_send_frame(w)
        \/ ws_send_frame_raises(w)

\* the event loop resumes every handler that can run
SpecStream == Init /\ [][NextStream]_vars /\ \A w \in Sockets : WF_vars(ws_runs(w))

\* the handler of w is in its streaming loop with a scanner that stop_scanner
\* has taken out of the registry
Stopped(w) ==
    /\ ws_pc[w] \in {"streaming", "frame"}
    /\ active_scanners[scanners[ws_scanner[w]].camera_id] # ws_scanner[w]

(* C37: Stopping ends streaming.  Once stop_scanner(camera_id) has run, a    *)
(* streaming loop that uses that camera's scanner captures no further frame: *)
(* its next capture gives none, the loop is left (after the error message),  *)
(* and the websocket is eventually removed from active_connections.          *)
C37_StoppingEndsStreaming ==
    /\ [][ \A w \in Sockets :
             /\ (ws_pc[w] = "streaming" /\ ws_pc'[w] = "frame") => ~Stopped(w)
             /\ (Stopped(w) /\ ws_pc[w] = "streaming" /\ ws_pc'[w] # ws_pc[w]) =>
                    ws_pc'[w] = "closing"
             /\ (Stopped(w) /\ ws_pc[w] = "streaming") => ENABLED ws_capture_not_running(w)
         ]_vars
    /\ \A w \in Sockets : Stopped(w) ~> (PositionsOf(w) = {})

\* a handler whose scanner was stopped has left the loop and the registry,
\* while the other one streams from the scanner started afterwards
C37_Witness ==
    \E w, v \in Sockets :
        /\ ws_pc[w] = "closed"
        /\ ws_scanner[w] = 1
        /\ ~scanners[1].is_running
        /\ ws_pc[v] = "frame"
        /\ ws_scanner[v] = 2

\* the payloads of a list of detections
payloads(list) == { list[i].data : i \in DOMAIN list }

(* C38: The merge step is idempotent and loses nothing.  When scan_frame     *)
(* runs, the payloads of the merged list are exactly those of the two input  *)
(* lists (and so are the texts of the results), the merged list is not       *)
(* longer than the inputs together, and merging the merged list again, alone *)
(* or with itself, gives the same sequence.                                  *)
C38_MergeIdempotent ==
    [][ LET merged == all_barcodes(detections[1], detections[2])
        IN /\ payloads(merged) = payloads(detections[1]) \cup payloads(detections[2])
           /\ { scan_results'[k].data : k \in DOMAIN scan_results' }
                = { decode(data) : data \in payloads(detections[1]) \cup payloads(detections[2]) }
           /\ Len(merged) <= Len(detections[1]) + Len(detections[2])
           /\ Len(scan_results') = Len(merged)
           /\ all_barcodes(merged, <<>>) = merged
           /\ all_barcodes(<<>>, merged) = merged
           /\ all_barcodes(merged, merged) = merged
      ]_vars

\* scan_frame has merged a raw pass with one code and a thresholded pass that
\* found the same code and another one
C38_Witness ==
    /\ Len(detections[1]) = 1
    /\ Len(detections[2]) = 2
    /\ detections[2][1].data = detections[1][1].data
    /\ detections[2][2].data # detections[1][1].data
    /\ Len(scan_results) = 2

(* C39: Every StockMovement that update_stock creates has a quantity equal   *)
(* to the absolute value of its quantity_change (so quantity >= 0), and its  *)
(* product_id and warehouse_id are the key of the call, the key of the       *)
(* StockLevel row the same commit wrote.                                     *)
C39_MovementMagnitude ==
    [][ \A p \in Procs :
          Commits(p) =>
             LET m == stock_movements'[Len(stock_movements')]
                 row == IF session[p].stock = 0 THEN Len(stock_levels') ELSE session[p].stock
             IN /\ Len(stock_movements') = Len(stock_movements) + 1
                /\ m.quantity >= 0
                /\ m.quantity = m.quantity_change \/ m.quantity = 0 - m.quantity_change
                /\ m.quantity_change = session[p].quantity_change
                /\ m.product_id = session[p].product_id
                /\ m.warehouse_id = session[p].warehouse_id
                /\ m.product_id = stock_levels'[row].product_id
                /\ m.warehouse_id = stock_levels'[row].warehouse_id
      ]_vars

\* a delivery has committed: its movement has a negative change and a
\* positive quantity
C39_Witness ==
    \E i \in DOMAIN stock_movements :
        /\ stock_movements[i].quantity_change < 0
        /\ stock_movements[i].quantity = 0 - stock_movements[i].quantity_change
        /\ stock_movements[i].movement_type = SCAN_DELIVERY
====
